---- MODULE Spec2Model ----
(***************************************************************************)
(* Enrichpedia front end: the article list page (Home), its processing     *)
(* form, the article detail page (Article) and the axios client they use.  *)
(*                                                                         *)
(* A React event handler, together with the re-render and the effects it   *)
(* causes, runs to completion before any network response is delivered,    *)
(* so each handler is one action; each await is the boundary between the   *)
(* action that issues a request and the action that settles it.            *)
(***************************************************************************)
EXTENDS Integers, Sequences, FiniteSets, TLC

(* ------------------------------ bounds --------------------------------- *)
MaxFetches == 3        \* list/search requests issued in one behaviour
MaxPosts == 2          \* POST /process/ requests issued in one behaviour
MaxGets == 3           \* GET /articles/{id} requests issued in one behaviour

(* --------------------------- program constants ------------------------- *)
pageSize == 12

\* axios.create is given no timeout: the axios default, 0, is no timeout
timeout == 0

NULL == "null"

(* ------------------------------ inputs --------------------------------- *)
\* The text of the URL field is a sequence of tokens: a blank, a well-formed
\* absolute URL, or a word that is no URL.
Blank == " "
WellFormed == "https://facebook.com/p"
Word == "page"
UrlTexts ==
    {<<>>, <<Blank>>, <<Blank, Blank>>, <<WellFormed>>,
     <<Blank, WellFormed, Blank>>, <<Word>>, <<Word, Blank>>}

\* search parameter of the location: "" when absent
Queries == {"", "climate"}

\* what the backend may answer to a list or search request
Totals == {0, 3, 15, 27}
ArticleLists == {<<>>, <<"a1">>, <<"a2">>}
ListResponses ==
    {r \in [articles : ArticleLists, total : Totals] :
        r.total = 0 => r.articles = <<>>}

\* what the backend may answer to POST /process/
ProcessResponses ==
    {[success |-> TRUE, article_id |-> "abc123", message |-> "created"],
     [success |-> FALSE, article_id |-> NULL, message |-> "rejected"]}

\* what a rejected request throws: an Error with a message, or a non-Error
Thrown ==
    {[isError |-> TRUE, status |-> 404,
      message |-> "Request failed with status code 404"],
     [isError |-> TRUE, status |-> 500,
      message |-> "Request failed with status code 500"],
     [isError |-> TRUE, status |-> 0, message |-> "Network Error"],
     [isError |-> FALSE, status |-> 0, message |-> NULL]}

\* the task ids the backend assigns, and the errors a failed task carries
TaskIds == {"t1", "t2"}
TaskErrors == {"pipeline failed"}

\* the id route parameter: "" when absent
NoId == ""
Ids == {"a1", "a2"}

(* ------------------------- Home: state --------------------------------- *)
VARIABLES
    searchQuery,     \* searchParams.get('search') || ''
    articles,        \* Article[] shown
    loading,
    page,
    total,
    processUrl_,     \* text of the URL field
    processing,
    processResult,   \* <<>> for null, <<r>> for a ProcessResponse r
    processError,    \* NULL or a message
    inflight,        \* list/search requests awaiting their response
    nFetch,          \* list/search requests issued so far
    posts,           \* POST /process/ requests awaiting their response
    nPost,           \* POST /process/ requests issued so far
    shownSeq,        \* number of the request whose response is shown
    lastOk,          \* highest number among the requests answered so far
    unhandled,       \* an error left a handler uncaught
    lastOp           \* the handler that ran last, and how it ended

(* ------------------------- Article: state ------------------------------ *)
VARIABLES
    id,              \* useParams().id, NoId when absent
    article,         \* <<>> for null, <<a>> for an Article a
    artLoading,      \* Article's loading
    error,           \* NULL or a message
    gets,            \* GET /articles/{id} requests awaiting their response
    nGet,            \* GET /articles/{id} requests issued so far
    okGets,          \* numbers of the getArticle requests that resolved
    lastStatus,      \* HTTP status of the last rejection, -1 before any
    detailOp         \* the step of Article that ran last

(* ------------------------- backend ------------------------------------- *)
VARIABLES
    silent,          \* the backend has stopped answering
    task,            \* task id -> <<>> or <<t>>, the backend's ProcessingTask
    observed         \* task id -> <<>> or <<t>>, what the last poll returned

homeVars ==
    <<searchQuery, articles, loading, page, total, processUrl_, processing,
      processResult, processError, inflight, nFetch, posts, nPost, shownSeq,
      lastOk, unhandled, lastOp>>

articleVars ==
    <<id, article, artLoading, error, gets, nGet, okGets, lastStatus,
      detailOp>>

netVars == <<silent, task, observed>>

vars == <<homeVars, articleVars, netVars>>

(* ------------------------- pure helpers -------------------------------- *)
Max(a, b) == IF a >= b THEN a ELSE b
Min(a, b) == IF a <= b THEN a ELSE b

\* Math.ceil(a / b) for a >= 0, b > 0
Ceil(a, b) == (a + b - 1) \div b

RECURSIVE TrimStart(_)
TrimStart(s) ==
    IF s # <<>> /\ Head(s) = Blank THEN TrimStart(Tail(s)) ELSE s

RECURSIVE TrimEnd(_)
TrimEnd(s) ==
    IF s # <<>> /\ s[Len(s)] = Blank
    THEN TrimEnd(SubSeq(s, 1, Len(s) - 1))
    ELSE s

NoTrim(s) == s

\* String.prototype.trim
Trim(s) == TrimEnd(TrimStart(s))

messageFallbackOnly(thrown, fallback) == fallback

\* error instanceof Error ? error.message : fallback
messageOf(thrown, fallback) ==
    IF thrown.isError THEN thrown.message ELSE fallback

(* ------------------------- services/api.ts ----------------------------- *)
getArticles(p, ps) ==
    [method |-> "GET", path |-> "/articles", q |-> "", page |-> p,
     page_size |-> ps]

getArticle(i) ==
    [method |-> "GET", path |-> "/articles/", id |-> i]

searchArticles(query, p, ps) ==
    [method |-> "GET", path |-> "/articles/search/", q |-> query, page |-> p,
     page_size |-> ps]

processUrl(request) ==
    [method |-> "POST", path |-> "/process/", url |-> request.url]

processUrlAsync(request) ==
    [method |-> "POST", path |-> "/process/async", url |-> request.url]

getProcessingStatusOfFirst(taskId) ==
    [method |-> "GET", path |-> "/process/status/", task_id |-> "t1"]

getProcessingStatus(taskId) ==
    [method |-> "GET", path |-> "/process/status/", task_id |-> taskId]

\* a pending request is rejected when the backend or the network answers
\* with a failure, or when a configured timeout runs out
canReject == ~silent \/ timeout > 0

(* ------------------------- Home: derived ------------------------------- *)
totalPages == Ceil(total, pageSize)

paginationRendered == totalPages > 1
prevDisabled == page = 1
nextDisabled == page = totalPages
urlInputDisabled == processing
processButtonDisabledBlankOnly == Trim(processUrl_) = <<>>

processButtonDisabled == processing \/ Trim(processUrl_) = <<>>

fetchRequestListOnly(query, p) == getArticles(p, pageSize)

\* the request fetchArticles makes for a given (searchQuery, page)
fetchRequest(query, p) ==
    IF query # ""
    THEN searchArticles(query, p, pageSize)
    ELSE getArticles(p, pageSize)

\* fetchArticles up to its await: setLoading(true) and the request
fetchArticles(query, p) ==
    /\ loading' = TRUE
    /\ nFetch' = nFetch + 1
    /\ inflight' = inflight \cup
           {[seq |-> nFetch + 1, request |-> fetchRequest(query, p)]}

prevPage(p) == Max(1, p - 1)

nextPageUnclamped(p) == p + 1

nextPage(p) == Min(totalPages, p + 1)

refreshesAlways(result) == TRUE

\* if (result.success)
refreshes(result) == result.success

(* ------------------------- Home: actions ------------------------------- *)
ListUnchanged == UNCHANGED <<articles, total, shownSeq, lastOk>>
FormUnchanged ==
    UNCHANGED <<processUrl_, processing, processResult, processError,
                posts, nPost>>

\* the location's search parameter changes (Header.handleSearch, or a link
\* to "/"); fetchArticles gets a new identity and the effect runs it
ChangeQuery(query) ==
    /\ query # searchQuery
    /\ nFetch < MaxFetches
    /\ searchQuery' = query
    /\ fetchArticles(query, page)
    /\ lastOp' = "query"
    /\ UNCHANGED <<page, unhandled, articleVars, netVars>>
    /\ ListUnchanged /\ FormUnchanged

\* setPage(f) followed, when the page changed, by the effect
SetPage(p, op, opSame) ==
    /\ page' = p
    /\ IF p # page
       THEN /\ nFetch < MaxFetches
            /\ fetchArticles(searchQuery, p)
            /\ lastOp' = op
       ELSE /\ lastOp' = opSame
            /\ UNCHANGED <<loading, nFetch, inflight>>
    /\ UNCHANGED <<searchQuery, unhandled, articleVars, netVars>>
    /\ ListUnchanged /\ FormUnchanged

\* onClick of Previous, which exists while the pagination is rendered
Previous ==
    /\ paginationRendered
    /\ SetPage(prevPage(page), "previous", "previousSame")

\* onClick of Next, which exists while the pagination is rendered
NextPage ==
    /\ paginationRendered
    /\ SetPage(nextPage(page), "next", "nextSame")

\* the awaited list/search request resolves
FetchSucceed(f, response) ==
    /\ f \in inflight
    /\ ~silent
    /\ inflight' = inflight \ {f}
    /\ articles' = response.articles
    /\ total' = response.total
    /\ loading' = FALSE
    /\ shownSeq' = f.seq
    /\ lastOk' = Max(lastOk, f.seq)
    /\ lastOp' = "fetchOk"
    /\ UNCHANGED <<searchQuery, page, nFetch, unhandled, articleVars, netVars>>
    /\ FormUnchanged

FetchFailClears(f) ==
    /\ f \in inflight
    /\ canReject
    /\ inflight' = inflight \ {f}
    /\ articles' = <<>>
    /\ total' = 0
    /\ loading' = FALSE
    /\ lastOp' = "fetchErr"
    /\ UNCHANGED <<searchQuery, page, nFetch, shownSeq, lastOk, unhandled,
                   articleVars, netVars>>
    /\ FormUnchanged

\* the awaited list/search request rejects: catch logs, finally runs
FetchFail(f) ==
    /\ f \in inflight
    /\ canReject
    /\ inflight' = inflight \ {f}
    /\ loading' = FALSE
    /\ lastOp' = "fetchErr"
    /\ UNCHANGED <<searchQuery, page, nFetch, unhandled, articleVars, netVars>>
    /\ ListUnchanged /\ FormUnchanged

\* onChange of the URL field
TypeUrl(text) ==
    /\ text # processUrl_
    /\ processUrl_' = text
    /\ lastOp' = "type"
    /\ UNCHANGED <<searchQuery, page, loading, inflight, nFetch, unhandled,
                   processing, processResult, processError, posts, nPost,
                   articleVars, netVars>>
    /\ ListUnchanged

\* handleProcess up to its await
handleProcess ==
    IF Trim(processUrl_) = <<>>
    THEN /\ lastOp' = "submitBlank"
         /\ UNCHANGED <<searchQuery, page, loading, inflight, nFetch,
                        unhandled, articleVars, netVars>>
         /\ ListUnchanged /\ FormUnchanged
    ELSE /\ nPost < MaxPosts
         /\ processing' = TRUE
         /\ processResult' = <<>>
         /\ processError' = NULL
         /\ nPost' = nPost + 1
         /\ posts' = posts \cup
                {[seq |-> nPost + 1,
                  request |-> processUrl([url |-> Trim(processUrl_)]),
                  query |-> searchQuery,
                  page |-> page]}
         /\ lastOp' = "submit"
         /\ UNCHANGED <<searchQuery, page, loading, inflight, nFetch,
                        unhandled, processUrl_, articleVars, netVars>>
         /\ ListUnchanged

\* the awaited POST resolves; the fetchArticles it calls is the one of the
\* render in which the form was submitted
ProcessRespond(s, result) ==
    /\ s \in posts
    /\ ~silent
    /\ posts' = posts \ {s}
    /\ processResult' = <<result>>
    /\ processing' = FALSE
    /\ IF refreshes(result)
       THEN /\ nFetch < MaxFetches
            /\ processUrl_' = <<>>
            /\ fetchArticles(s.query, s.page)
       ELSE UNCHANGED <<processUrl_, loading, nFetch, inflight>>
    /\ lastOp' = IF result.success THEN "processOk" ELSE "processNo"
    /\ UNCHANGED <<searchQuery, page, processError, nPost, unhandled,
                   articleVars, netVars>>
    /\ ListUnchanged

ProcessThrowClears(s, thrown) ==
    /\ s \in posts
    /\ canReject
    /\ posts' = posts \ {s}
    /\ processError' = messageOf(thrown, "Failed to process URL")
    /\ processing' = FALSE
    /\ processUrl_' = <<>>
    /\ lastOp' = "processErr"
    /\ UNCHANGED <<searchQuery, page, loading, inflight, nFetch, unhandled,
                   processResult, nPost, articleVars, netVars>>
    /\ ListUnchanged

\* the awaited POST rejects
ProcessThrow(s, thrown) ==
    /\ s \in posts
    /\ canReject
    /\ posts' = posts \ {s}
    /\ processError' = messageOf(thrown, "Failed to process URL")
    /\ processing' = FALSE
    /\ lastOp' = "processErr"
    /\ UNCHANGED <<searchQuery, page, loading, inflight, nFetch, unhandled,
                   processUrl_, processResult, nPost, articleVars, netVars>>
    /\ ListUnchanged

(* ------------------------- Home: events of the rendered page ---------- *)
\* a disabled button or input delivers no event to its handler

\* the submit button takes a click
submitEnabled == ~processButtonDisabled

ClickPrevious == ~prevDisabled /\ Previous

ClickNext == ~nextDisabled /\ NextPage

EditUrl(text) == ~urlInputDisabled /\ TypeUrl(text)

ClickSubmit == submitEnabled /\ handleProcess

(* ------------------------- Article: actions ---------------------------- *)
\* Article's state as a record, for the effect to transform
detailState ==
    [article |-> article, loading |-> artLoading, error |-> error,
     gets |-> gets, nGet |-> nGet]

detailMounted ==
    [article |-> <<>>, loading |-> TRUE, error |-> NULL, gets |-> {},
     nGet |-> 0]

fetchArticleUnguarded(i, d) ==
    [d EXCEPT !.nGet = @ + 1,
              !.gets = @ \cup {[seq |-> d.nGet + 1, request |-> getArticle(i)]}]

\* fetchArticle up to its await, from the state d
fetchArticle(i, d) ==
    IF i = NoId
    THEN [d EXCEPT !.error = "Article ID not provided", !.loading = FALSE]
    ELSE [d EXCEPT !.nGet = @ + 1,
                   !.gets = @ \cup
                       {[seq |-> d.nGet + 1, request |-> getArticle(i)]}]

\* the id of the route /article/:id changes; the effect runs fetchArticle
RouteChange(i) ==
    /\ id # NoId
    /\ i # id
    /\ nGet < MaxGets
    /\ id' = i
    /\ LET d == fetchArticle(i, detailState)
       IN /\ article' = d.article
          /\ artLoading' = d.loading
          /\ error' = d.error
          /\ gets' = d.gets
          /\ nGet' = d.nGet
    /\ detailOp' = "route"
    /\ UNCHANGED <<okGets, lastStatus, homeVars, netVars>>

\* the awaited getArticle resolves
GetSucceed(g) ==
    /\ g \in gets
    /\ ~silent
    /\ gets' = gets \ {g}
    /\ article' = <<[id |-> g.request.id]>>
    /\ artLoading' = FALSE
    /\ okGets' = okGets \cup {g.seq}
    /\ detailOp' = "getOk"
    /\ UNCHANGED <<id, error, nGet, lastStatus, homeVars, netVars>>

\* the awaited getArticle rejects
GetFail(g, thrown) ==
    /\ g \in gets
    /\ canReject
    /\ gets' = gets \ {g}
    /\ error' = messageOf(thrown, "Failed to load article")
    /\ artLoading' = FALSE
    /\ lastStatus' = thrown.status
    /\ detailOp' = "getErr"
    /\ UNCHANGED <<id, article, nGet, okGets, homeVars, netVars>>

(* ------------------------- processing tasks ---------------------------- *)
Terminal == {"completed", "failed"}

\* the request the backend takes as an asynchronous submission
BackendAccepts(request) ==
    request.method = "POST" /\ request.path = "/process/async"

\* processUrlAsync is accepted: the backend creates the task t
SubmitAsync(t) ==
    /\ ~silent
    /\ task[t] = <<>>
    /\ BackendAccepts(processUrlAsync([url |-> WellFormed]))
    /\ task' = [task EXCEPT ![t] =
                    <<[task_id |-> t, status |-> "processing",
                       result |-> <<>>, error |-> NULL]>>]
    /\ UNCHANGED <<observed, silent, homeVars, articleVars>>

\* the pipeline finishes the task t
BackendComplete(t, result) ==
    /\ task[t] # <<>>
    /\ task[t][1].status = "processing"
    /\ task' = [task EXCEPT ![t] =
                    <<[task[t][1] EXCEPT !.status = "completed",
                                         !.result = <<result>>]>>]
    /\ UNCHANGED <<observed, silent, homeVars, articleVars>>

\* the pipeline fails the task t
BackendFail(t, message) ==
    /\ task[t] # <<>>
    /\ task[t][1].status = "processing"
    /\ task' = [task EXCEPT ![t] =
                    <<[task[t][1] EXCEPT !.status = "failed",
                                         !.error = message]>>]
    /\ UNCHANGED <<observed, silent, homeVars, articleVars>>

\* the backend stops answering: requests in flight get no response
BackendStops ==
    /\ ~silent
    /\ silent' = TRUE
    /\ UNCHANGED <<task, observed, homeVars, articleVars>>

\* what the backend answers to GET /process/status/{task_id}
BackendStatus(request) == task[request.task_id]

\* a caller polls the task t: getProcessingStatus returns response.data
Poll(t) ==
    /\ ~silent
    /\ task[t] # <<>>
    /\ BackendStatus(getProcessingStatus(t)) # <<>>
    /\ observed' =
           [observed EXCEPT ![t] = BackendStatus(getProcessingStatus(t))]
    /\ UNCHANGED <<task, silent, homeVars, articleVars>>

\* what Article renders
presentation ==
    IF artLoading THEN "loading"
    ELSE IF error # NULL \/ article = <<>> THEN "Article Not Found"
    ELSE "ArticleDetail"

(* ------------------------- specifications ------------------------------ *)
\* Home after its first render and effect: the first fetch is in flight
HomeInit ==
    /\ searchQuery \in Queries
    /\ articles = <<>>
    /\ loading = TRUE
    /\ page = 1
    /\ total = 0
    /\ processUrl_ = <<>>
    /\ processing = FALSE
    /\ processResult = <<>>
    /\ processError = NULL
    /\ nFetch = 1
    /\ inflight = {[seq |-> 1, request |-> fetchRequest(searchQuery, 1)]}
    /\ posts = {}
    /\ nPost = 0
    /\ shownSeq = 0
    /\ lastOk = 0
    /\ unhandled = FALSE
    /\ lastOp = "mount"

\* Home not mounted
HomeIdle ==
    /\ searchQuery = ""
    /\ articles = <<>>
    /\ loading = TRUE
    /\ page = 1
    /\ total = 0
    /\ processUrl_ = <<>>
    /\ processing = FALSE
    /\ processResult = <<>>
    /\ processError = NULL
    /\ nFetch = 0
    /\ inflight = {}
    /\ posts = {}
    /\ nPost = 0
    /\ shownSeq = 0
    /\ lastOk = 0
    /\ unhandled = FALSE
    /\ lastOp = "unmounted"

\* Article after its first render and effect
ArticleInit ==
    /\ id \in Ids \cup {NoId}
    /\ LET d == fetchArticle(id, detailMounted)
       IN /\ article = d.article
          /\ artLoading = d.loading
          /\ error = d.error
          /\ gets = d.gets
          /\ nGet = d.nGet
    /\ okGets = {}
    /\ lastStatus = -1
    /\ detailOp = "mount"

\* Article not mounted
ArticleIdle ==
    /\ id = NoId
    /\ article = <<>>
    /\ artLoading = TRUE
    /\ error = NULL
    /\ gets = {}
    /\ nGet = 0
    /\ okGets = {}
    /\ lastStatus = -1
    /\ detailOp = "unmounted"

\* the route "/" is shown
\* the backend answers and holds no task
BackendUp ==
    /\ silent = FALSE
    /\ task = [t \in TaskIds |-> <<>>]
    /\ observed = [t \in TaskIds |-> <<>>]

Init == HomeInit /\ ArticleIdle /\ BackendUp

ListNext ==
    \/ \E query \in Queries : ChangeQuery(query)
    \/ Previous
    \/ NextPage
    \/ \E f \in inflight : \E response \in ListResponses :
           FetchSucceed(f, response)
    \/ \E f \in inflight : FetchFail(f)

FormNext ==
    \/ \E text \in UrlTexts : TypeUrl(text)
    \/ handleProcess
    \/ \E s \in posts : \E result \in ProcessResponses :
           ProcessRespond(s, result)
    \/ \E s \in posts : \E thrown \in Thrown : ProcessThrow(s, thrown)
    \/ \E f \in inflight : \E response \in ListResponses :
           FetchSucceed(f, response)
    \/ \E f \in inflight : FetchFail(f)

ArticleNext ==
    \/ \E i \in Ids : RouteChange(i)
    \/ \E g \in gets : GetSucceed(g)
    \/ \E g \in gets : \E thrown \in Thrown : GetFail(g, thrown)

TaskNext ==
    \/ \E t \in TaskIds : SubmitAsync(t)
    \/ \E t \in TaskIds : \E result \in ProcessResponses :
           BackendComplete(t, result)
    \/ \E t \in TaskIds : \E message \in TaskErrors :
           BackendFail(t, message)
    \/ \E t \in TaskIds : Poll(t)

Next ==
    \/ \E query \in Queries : ChangeQuery(query)
    \/ Previous
    \/ NextPage
    \/ \E f \in inflight : \E response \in ListResponses :
           FetchSucceed(f, response)
    \/ \E f \in inflight : FetchFail(f)
    \/ \E text \in UrlTexts : TypeUrl(text)
    \/ handleProcess
    \/ \E s \in posts : \E result \in ProcessResponses :
           ProcessRespond(s, result)
    \/ \E s \in posts : \E thrown \in Thrown : ProcessThrow(s, thrown)

\* Home, all of it
Spec == Init /\ [][Next]_vars

\* Home, its list alone: the form is left untouched
SpecList == Init /\ [][ListNext]_vars

\* Home, its form alone: the location and the page are left untouched
SpecForm == Init /\ [][FormNext]_vars

\* the route "/article/:id" is shown
InitArticle == HomeIdle /\ ArticleInit /\ BackendUp

\* Home as rendered: the form alone
FormUINext ==
    \/ \E text \in UrlTexts : EditUrl(text)
    \/ ClickSubmit
    \/ \E s \in posts : \E result \in ProcessResponses :
           ProcessRespond(s, result)
    \/ \E s \in posts : \E thrown \in Thrown : ProcessThrow(s, thrown)
    \/ \E f \in inflight : \E response \in ListResponses :
           FetchSucceed(f, response)
    \/ \E f \in inflight : FetchFail(f)

SpecFormUI == Init /\ [][FormUINext]_vars

\* Home as rendered: the list and the form
UINext ==
    \/ \E query \in Queries : ChangeQuery(query)
    \/ ClickPrevious
    \/ ClickNext
    \/ \E f \in inflight : \E response \in ListResponses :
           FetchSucceed(f, response)
    \/ \E f \in inflight : FetchFail(f)
    \/ \E text \in UrlTexts : EditUrl(text)
    \/ ClickSubmit
    \/ \E s \in posts : \E result \in ProcessResponses :
           ProcessRespond(s, result)
    \/ \E s \in posts : \E thrown \in Thrown : ProcessThrow(s, thrown)

SpecUI == Init /\ [][UINext]_vars

\* a list/search request in flight settles
FetchSettles ==
    \/ \E f \in inflight : \E response \in ListResponses :
           FetchSucceed(f, response)
    \/ \E f \in inflight : FetchFail(f)

LiveNext ==
    \/ \E query \in Queries : ChangeQuery(query)
    \/ Previous
    \/ NextPage
    \/ FetchSettles
    \/ BackendStops

\* Home's list with a backend that may stop answering; a request that can
\* settle does settle
SpecLive == Init /\ [][LiveNext]_vars /\ WF_vars(FetchSettles)

\* no page is shown: a caller of the client submits and polls tasks
InitTask == HomeIdle /\ ArticleIdle /\ BackendUp

SpecTask == InitTask /\ [][TaskNext]_vars

SpecArticle == InitArticle /\ [][ArticleNext]_vars

TypeOK ==
    /\ searchQuery \in Queries
    /\ articles \in ArticleLists
    /\ loading \in BOOLEAN
    /\ page \in 1..3
    /\ total \in Totals
    /\ processUrl_ \in UrlTexts
    /\ processing \in BOOLEAN
    /\ nFetch \in 0..MaxFetches
    /\ nPost \in 0..MaxPosts
    /\ shownSeq \in 0..MaxFetches
    /\ lastOk \in 0..MaxFetches
    /\ unhandled = FALSE
    /\ id \in Ids \cup {NoId}
    /\ artLoading \in BOOLEAN
    /\ nGet \in 0..MaxGets
    /\ okGets \subseteq 1..MaxGets
    /\ lastStatus \in {-1, 0, 404, 500}
    /\ silent \in BOOLEAN

(* ------------------------------ claims --------------------------------- *)
PrevOps == {"previous", "previousSame"}
NextOps == {"next", "nextSame"}
SubmitOps == {"submit", "submitBlank"}

\* a text that is empty or made of blanks only
IsBlankText(s) == \A i \in 1..Len(s) : s[i] = Blank

\* a text that reads as an absolute URL: it starts with one and holds no blank
IsValidUrl(s) ==
    /\ s # <<>>
    /\ s[1] = WellFormed
    /\ \A i \in 1..Len(s) : s[i] # Blank

\* this step settles a POST /process/
PostSettles == posts' # posts /\ nPost' = nPost

\* C1: last-requested-wins. The response shown is always that of the latest
\* request among those answered: a response to an older request that arrives
\* after the response to a newer one does not overwrite articles and total.
C1_LastRequestedWins == shownSeq = lastOk

C3_InvalidUrlRejected == \A s \in posts : IsValidUrl(s.request.url)

\* C4: when a list or search fetch fails, articles and total stay those of the
\* previous successful fetch, loading ends false and no error is left
\* unhandled.
C4_FailureKeepsSnapshot ==
    [][lastOp' = "fetchErr" =>
          /\ articles' = articles
          /\ total' = total
          /\ loading' = FALSE
          /\ unhandled' = FALSE]_vars

C4_Witness ==
    /\ lastOp = "fetchErr"
    /\ shownSeq > 0
    /\ articles # <<>>
    /\ total > 0
    /\ ~loading

\* C5: loading is true exactly while at least one list/search fetch issued by
\* the view is in flight.
C5_LoadingWhileInFlight == loading <=> (inflight # {})

\* C6: Previous leaves page unchanged at page 1, Next leaves page unchanged at
\* the last page ceil(total / pageSize); with total = 15 and page = 2 Next is
\* disabled.
C6_NavigationClamped ==
    [][/\ (lastOp' \in PrevOps /\ page = 1) => page' = 1
       /\ (lastOp' \in NextOps /\ page = Ceil(total, 12)) => page' = page
       /\ (total = 15 /\ page = 2) => nextDisabled]_vars

C6_Witness ==
    /\ lastOp = "nextSame"
    /\ total = 15
    /\ page = 2
    /\ nextDisabled

\* C7: a step that changes searchQuery or page issues exactly one request, to
\* the search endpoint with the new query, page and page size when searchQuery
\* is non-empty and to the list endpoint with the page and page size
\* otherwise; a navigation that leaves page unchanged issues none.
C7_OneFetchPerChange ==
    [][/\ (searchQuery' # searchQuery \/ page' # page) =>
             /\ nFetch' = nFetch + 1
             /\ inflight' = inflight \cup
                    {[seq |-> nFetch',
                      request |->
                          [method |-> "GET",
                           path |-> IF searchQuery' # ""
                                    THEN "/articles/search/"
                                    ELSE "/articles",
                           q |-> searchQuery',
                           page |-> page',
                           page_size |-> 12]]}
       /\ lastOp' \in {"previousSame", "nextSame"} =>
             UNCHANGED <<page, nFetch, inflight>>]_vars

C7_Witness ==
    /\ lastOp = "query"
    /\ searchQuery # ""
    /\ page = 2
    /\ \E f \in inflight :
           /\ f.seq = nFetch
           /\ f.request.path = "/articles/search/"
           /\ f.request.page = 2

\* C8: a POST /process/ answered with success = true is followed by one list
\* refresh; one answered with success = false, or one that fails, by none.
C8_RefreshOnSuccessOnly ==
    [][PostSettles =>
          IF lastOp' # "processErr" /\ processResult'[1].success
          THEN /\ nFetch' = nFetch + 1
               /\ \E f \in inflight' :
                      f.seq = nFetch' /\ inflight' = inflight \cup {f}
          ELSE UNCHANGED <<nFetch, inflight>>]_vars

C8_Witness ==
    /\ lastOp = "processOk"
    /\ processResult # <<>>
    /\ processResult[1].success
    /\ \E f \in inflight : f.seq = nFetch /\ f.seq > 1

\* C9: a submission that fails, by throwing or with success = false, leaves
\* the URL text unchanged and shows the failure; the URL text is cleared only
\* by a submission that succeeds.
C9_FailureKeepsUrl ==
    [][PostSettles =>
          /\ lastOp' = "processErr" =>
                 processUrl_' = processUrl_ /\ processError' # NULL
          /\ (lastOp' # "processErr" /\ ~processResult'[1].success) =>
                 processUrl_' = processUrl_
          /\ processUrl_' # processUrl_ =>
                 /\ lastOp' # "processErr"
                 /\ processResult'[1].success
                 /\ processUrl_' = <<>>]_vars

C9_Witness ==
    /\ lastOp = "processErr"
    /\ processUrl_ = <<Blank, WellFormed, Blank>>
    /\ processError # NULL
    /\ ~processing

\* C10: with the id absent the detail view is in the error state at once
\* (error set, loading false, article null) and getArticle is never called.
C10_MissingIdNoTransport ==
    id = NoId =>
        /\ error = "Article ID not provided"
        /\ ~artLoading
        /\ article = <<>>
        /\ nGet = 0
        /\ gets = {}

C10_Witness ==
    /\ id = NoId
    /\ detailOp = "mount"
    /\ presentation = "Article Not Found"

NotFoundMessage == "Request failed with status code 404"
MissingIdMessage == "Article ID not provided"

C12_TerminalIsStable ==
    \A t \in TaskIds :
        (observed[t] # <<>> /\ observed[t][1].status \in Terminal) =>
            /\ observed[t] = task[t]
            /\ observed[t][1].task_id = t

C12_Witness ==
    \E t \in TaskIds :
        /\ observed[t] # <<>>
        /\ observed[t][1].status = "completed"
        /\ observed[t][1].result # <<>>
        /\ \E u \in TaskIds : u # t /\ task[u] # <<>> /\
               task[u][1].status = "processing"

\* C13: no request hangs: every list/search request in flight eventually
\* settles, also when the backend never responds, so that loading, once set,
\* eventually becomes false.
C13_EveryRequestSettles ==
    /\ (inflight # {}) ~> (inflight = {})
    /\ loading ~> ~loading

\* C14: whenever no getArticle is in flight and the latest one, which is the
\* one for the current id, resolved, the detail view presents that article:
\* error is null and article is the article of the current id.
C14_ShowsCurrentArticle ==
    (id # NoId /\ gets = {} /\ nGet \in okGets) =>
        /\ error = NULL
        /\ article = <<[id |-> id]>>
        /\ presentation = "ArticleDetail"

\* C15: whenever no list/search fetch is in flight and the last one issued
\* succeeded and is the one shown, page lies between 1 and
\* max(1, ceil(total / pageSize)).
C15_PageWithinRange ==
    (inflight = {} /\ lastOk = nFetch /\ shownSeq = nFetch) =>
        /\ 1 <= page
        /\ page <= Max(1, Ceil(total, 12))

\* C16: the list refresh issued after a successful submission asks for the
\* page and the searchQuery that are current when it is issued.
C16_RefreshUsesCurrent ==
    [][lastOp' = "processOk" =>
          \E f \in inflight' :
              /\ f.seq = nFetch'
              /\ f.request =
                     [method |-> "GET",
                      path |-> IF searchQuery' # ""
                               THEN "/articles/search/"
                               ELSE "/articles",
                      q |-> searchQuery',
                      page |-> page',
                      page_size |-> 12]]_vars

\* C17: at most one submission is in flight, none is issued while processing
\* is true, and processResult and processError are never both non-null.
C17_OneSubmissionAtATime ==
    /\ Cardinality(posts) <= 1
    /\ processing <=> (posts # {})
    /\ ~(processResult # <<>> /\ processError # NULL)

C17_Witness ==
    /\ nPost = 2
    /\ processing
    /\ lastOp = "submit"
    /\ Cardinality(posts) = 1
====
